---- MODULE Spec2Model ----
(***************************************************************************)
(* A model of the engine of repohub (src/main.py): the catalog load and    *)
(* the search ranking of ExploreTab, the persisted configuration store of  *)
(* ConfigManager, and the install / toggle / uninstall workflow of         *)
(* ModDetailsContent, as whole handlers and, for install_mod, block by     *)
(* block.                                                                  *)
(*                                                                         *)
(* Strings are sequences of one-character strings. Scores are kept exact   *)
(* as integers: a score s of the program is the integer                    *)
(* s * 10000 * max(1, number of query words).                              *)
(***************************************************************************)
EXTENDS FiniteSets, Integers, Sequences, TLC

VARIABLES
    all_mods,               \* ExploreTab.all_mods: the cached catalog
    search_text,            \* the text of ExploreTab.search_bar
    search_timer,           \* TRUE while the single-shot search_timer is running
    matches,                \* the list `matches` of the last perform_search call
    search_results_layout,  \* names of the cards in search_results_layout
    n_scored,               \* how many entries the last perform_search call scored
    search_done,            \* TRUE when perform_search has run on the current search_text
    search_error,           \* TRUE when the last perform_search call raised
    fs,                     \* BepInEx/plugins: mod directories, disabled archives, loose files
    disk_config,            \* the document in ~/.repohub/config.json
    managers,               \* the long-lived ConfigManager instances: config, _dirty, _save_timer
    failed,                 \* packages for which an install, toggle or uninstall call failed
    last_op,                \* what the last handler did
    expected,               \* the records and dependencies added to the store and not removed
    runs,                   \* how many add_to_mods calls the mod with dependencies has had
    load,                   \* what the load_all_mods call of ExploreTab.__init__ did
    calls,                  \* the install_mod calls in progress, the innermost last
    temp_files,             \* the scratch archives in TEMP_DIR, by package name
    finished                \* the install_mod calls that returned, in order

search_vars == <<all_mods, search_text, search_timer, matches,
                 search_results_layout, n_scored, search_done, search_error>>

install_vars == <<fs, disk_config, managers, failed, last_op, expected, runs>>

call_vars == <<load, calls, temp_files, finished>>

vars == <<search_vars, install_vars, call_vars>>

-----------------------------------------------------------------------------
(* Bounds of the model.                                                    *)

MaxQueryLen == 3
MaxSmallCatalog == 3
MaxCatalog == 22
MaxStart == 1
MaxUnchecked == 1
MaxRuns == 2
MaxRefLen == 5
MaxApiLen == 3
MaxPackage == 4
MaxChunks == 2
MaxDepth == 2
MaxInstalls == 3

-----------------------------------------------------------------------------
(* Strings.                                                                *)

Max(a, b) == IF a >= b THEN a ELSE b
Min(a, b) == IF a <= b THEN a ELSE b

\* str.lower() on one character
LowerChar(c) ==
    CASE c = "A" -> "a"
      [] c = "B" -> "b"
      [] c = "E" -> "e"
      [] c = "I" -> "i"
      [] c = "L" -> "l"
      [] c = "O" -> "o"
      [] c = "P" -> "p"
      [] c = "R" -> "r"
      [] OTHER -> c

\* str.lower()
RECURSIVE Lower(_)
Lower(s) == IF s = <<>> THEN <<>> ELSE <<LowerChar(Head(s))>> \o Lower(Tail(s))

\* the code point of a character: Python compares strings by code point
CharCode(c) ==
    CASE c = " " -> 32
      [] c = "-" -> 45
      [] c = "1" -> 49
      [] c = "2" -> 50
      [] c = "5" -> 53
      [] c = "9" -> 57
      [] c = "A" -> 65
      [] c = "B" -> 66
      [] c = "a" -> 97
      [] c = "b" -> 98
      [] OTHER -> 127

\* s < t for Python strings
RECURSIVE StrLess(_, _)
StrLess(s, t) ==
    IF t = <<>> THEN FALSE
    ELSE IF s = <<>> THEN TRUE
    ELSE IF CharCode(Head(s)) # CharCode(Head(t))
         THEN CharCode(Head(s)) < CharCode(Head(t))
         ELSE StrLess(Tail(s), Tail(t))

\* `word in s` for Python strings
Contains(word, s) ==
    \E i \in 0..(Len(s) - Len(word)) : SubSeq(s, i + 1, i + Len(word)) = word

\* s.startswith(p)
StartsWith(s, p) == Len(p) <= Len(s) /\ SubSeq(s, 1, Len(p)) = p

\* str.split(): the maximal runs of non-space characters, in order
RECURSIVE SplitFrom(_, _, _)
SplitFrom(s, i, cur) ==
    IF i > Len(s) THEN (IF cur = <<>> THEN <<>> ELSE <<cur>>)
    ELSE IF s[i] = " "
         THEN (IF cur = <<>> THEN <<>> ELSE <<cur>>) \o SplitFrom(s, i + 1, <<>>)
         ELSE SplitFrom(s, i + 1, Append(cur, s[i]))

Split(s) == SplitFrom(s, 1, <<>>)

\* all strings over the characters cs of length lo..hi
Strings(cs, lo, hi) == UNION {[1..n -> cs] : n \in lo..hi}

-----------------------------------------------------------------------------
(* The fuzzywuzzy library (imported at the top of main.py) is not part of  *)
(* the repository. Its two functions are modelled by their contract: an    *)
(* integer in 0..100, 0 for an empty argument, 100 from partial_ratio when *)
(* the shorter string occurs in the longer one; in between, the ratio      *)
(* 2*M/T of matched characters M to total length T.                        *)

RECURSIVE LCSLen(_, _)
LCSLen(s, t) ==
    IF s = <<>> \/ t = <<>> THEN 0
    ELSE IF Head(s) = Head(t) THEN 1 + LCSLen(Tail(s), Tail(t))
    ELSE Max(LCSLen(Tail(s), t), LCSLen(s, Tail(t)))

Ratio(s, t) == (200 * LCSLen(s, t)) \div (Len(s) + Len(t))

SetMax(S) == CHOOSE x \in S : \A y \in S : y <= x

\* fuzz.partial_ratio(s1, s2)
partial_ratio(s1, s2) ==
    IF s1 = <<>> \/ s2 = <<>> THEN 0
    ELSE LET shorter == IF Len(s1) <= Len(s2) THEN s1 ELSE s2
             longer == IF Len(s1) <= Len(s2) THEN s2 ELSE s1
         IN SetMax({Ratio(shorter, SubSeq(longer, i + 1, i + Len(shorter))) :
                        i \in 0..(Len(longer) - Len(shorter))})

\* sorted(tokens): insertion into an ascending list
RECURSIVE InsertToken(_, _)
InsertToken(sorted, w) ==
    IF sorted = <<>> THEN <<w>>
    ELSE IF StrLess(w, Head(sorted)) THEN <<w>> \o sorted
    ELSE <<Head(sorted)>> \o InsertToken(Tail(sorted), w)

RECURSIVE SortTokens(_)
SortTokens(ws) ==
    IF ws = <<>> THEN <<>> ELSE InsertToken(SortTokens(Tail(ws)), Head(ws))

\* " ".join(tokens)
RECURSIVE JoinWords(_)
JoinWords(ws) ==
    IF ws = <<>> THEN <<>>
    ELSE IF Len(ws) = 1 THEN Head(ws)
    ELSE Head(ws) \o <<" ">> \o JoinWords(Tail(ws))

\* fuzz.token_sort_ratio(s1, s2)
token_sort_ratio(s1, s2) ==
    LET t1 == JoinWords(SortTokens(Split(Lower(s1))))
        t2 == JoinWords(SortTokens(Split(Lower(s2))))
    IN IF t1 = <<>> \/ t2 = <<>> THEN 0 ELSE Ratio(t1, t2)

-----------------------------------------------------------------------------
(* ExploreTab.perform_search: the score of one catalog entry.              *)

heap_max_size == 20
MinQueryLen == 3
ScoreThreshold == 35
QuickFuzzyCutoff == 30
TokenCutoff == 50

\* the number of query words, or 1 when there is none: the scale of a score
ScaleWords(query_words) == Max(1, Len(query_words))

\* any(word in text for word in query_words)
AnyWordIn(query_words, text) ==
    \E i \in 1..Len(query_words) : Contains(query_words[i], text)

\* all(word in text for word in query_words)
AllWordsIn(query_words, text) ==
    \A i \in 1..Len(query_words) : Contains(query_words[i], text)

\* sum(1 for word in query_words if word in text)
CountWordsIn(query_words, text) ==
    Cardinality({i \in 1..Len(query_words) : Contains(query_words[i], text)})

\* max(fuzz.partial_ratio(word, text) for word in query_words), query_words not empty
MaxPartial(query_words, text) ==
    SetMax({partial_ratio(query_words[i], text) : i \in 1..Len(query_words)})

\* name_exact_score * 0.35 + ... + desc_word_score * 0.05, times 100 * n, where n
\* is ScaleWords and desc_word_score is (word_matches / n) * 100
WeightedSum(n, name_ex, name_fz, name_tk, desc_ex, desc_fz, desc_tk, word_matches) ==
    n * ( 35 * name_ex + 15 * name_fz + 10 * name_tk
        + 20 * desc_ex + 10 * desc_fz + 5 * desc_tk )
    + 5 * 100 * word_matches

\* total_score *= 1.5 for a prefix match, *= 1.3 for full coverage: times 100
Boosted(weighted, prefix, coverage) ==
    weighted * (IF prefix THEN 15 ELSE 10) * (IF coverage THEN 13 ELSE 10)

\* total_score > 35
AboveThreshold(score, query_words) ==
    score > ScoreThreshold * 10000 * ScaleWords(query_words)

\* one pass of the loop body for the entry mod: whether it is skipped by the
\* early exit, whether max() of no query word raises ValueError, and total_score
ScoreMod(query_lower, query_words, mod) ==
    LET has_name_match == AnyWordIn(query_words, mod.name_lower)
        has_desc_match == AnyWordIn(query_words, mod.description_lower)
        skip == /\ ~has_name_match
                /\ ~has_desc_match
                /\ partial_ratio(query_lower, mod.name_lower) < QuickFuzzyCutoff
        name_exact_score == IF has_name_match THEN 100 ELSE 0
        name_fuzzy_score ==
            IF name_exact_score = 0 THEN MaxPartial(query_words, mod.name_lower) ELSE 0
        name_token_score ==
            IF name_exact_score = 0 /\ name_fuzzy_score > TokenCutoff
            THEN token_sort_ratio(query_lower, mod.name_lower) ELSE 0
        desc_exact_score == IF has_desc_match THEN 100 ELSE 0
        desc_scored == desc_exact_score = 0 /\ mod.description_lower # <<>>
        desc_fuzzy_score ==
            IF desc_scored THEN MaxPartial(query_words, mod.description_lower) ELSE 0
        desc_token_score ==
            IF desc_scored /\ desc_fuzzy_score > TokenCutoff
            THEN token_sort_ratio(query_lower, mod.description_lower) ELSE 0
        desc_word_matches ==
            IF mod.description_lower # <<>>
            THEN CountWordsIn(query_words, mod.description_lower) ELSE 0
        weighted == WeightedSum(ScaleWords(query_words), name_exact_score,
                                name_fuzzy_score, name_token_score, desc_exact_score,
                                desc_fuzzy_score, desc_token_score, desc_word_matches)
    IN IF skip THEN [skip |-> TRUE, raises |-> FALSE, total_score |-> 0]
       ELSE IF query_words = <<>>
       THEN [skip |-> FALSE, raises |-> TRUE, total_score |-> 0]
       ELSE [skip |-> FALSE, raises |-> FALSE,
             total_score |->
                 Boosted(weighted,
                         StartsWith(mod.name_lower, query_lower),
                         Len(query_words) > 0
                             /\ AllWordsIn(query_words, mod.description_lower))]

-----------------------------------------------------------------------------
(* The heap of perform_search. An item (-total_score, mod["name"], mod) is *)
(* the record [score, name, mod]; positions are those of heapq, from 0.    *)

\* x < y for two heap items: tuple comparison on (-score, name)
ItemLess(x, y) ==
    \/ x.score > y.score
    \/ x.score = y.score /\ StrLess(x.name, y.name)

RECURSIVE SiftDownLoop(_, _, _, _)
SiftDownLoop(heap, startpos, pos, newitem) ==
    IF pos > startpos
    THEN LET parentpos == (pos - 1) \div 2
             parent == heap[parentpos + 1]
         IN IF ItemLess(newitem, parent)
            THEN SiftDownLoop([heap EXCEPT ![pos + 1] = parent],
                              startpos, parentpos, newitem)
            ELSE [heap EXCEPT ![pos + 1] = newitem]
    ELSE [heap EXCEPT ![pos + 1] = newitem]

\* heapq._siftdown
siftdown(heap, startpos, pos) == SiftDownLoop(heap, startpos, pos, heap[pos + 1])

RECURSIVE SiftUpLoop(_, _, _, _)
SiftUpLoop(heap, startpos, pos, newitem) ==
    LET endpos == Len(heap)
        childpos == 2 * pos + 1
    IN IF childpos < endpos
       THEN LET rightpos == childpos + 1
                c == IF rightpos < endpos
                        /\ ~ItemLess(heap[childpos + 1], heap[rightpos + 1])
                     THEN rightpos ELSE childpos
            IN SiftUpLoop([heap EXCEPT ![pos + 1] = heap[c + 1]],
                          startpos, c, newitem)
       ELSE siftdown([heap EXCEPT ![pos + 1] = newitem], startpos, pos)

\* heapq._siftup
siftup(heap, pos) == SiftUpLoop(heap, pos, pos, heap[pos + 1])

\* heapq.heappush
heappush(heap, item) == siftdown(Append(heap, item), 0, Len(heap))

\* heapq.heapreplace
heapreplace(heap, item) == siftup([heap EXCEPT ![1] = item], 0)

\* the body of `if total_score > 35`
KeepTopMatches_Unbounded(heap, item) == heappush(heap, item)
KeepTopMatches(heap, item) ==
    IF Len(heap) < heap_max_size THEN heappush(heap, item)
    ELSE IF heap[1].score < item.score THEN heapreplace(heap, item)
    ELSE heap

\* the loop over all_mods from entry i on: the heap, the number of entries
\* scored, and whether an entry raised
RECURSIVE ScanMods(_, _, _, _, _, _)
ScanMods(query_lower, query_words, mods, i, heap, n) ==
    IF i > Len(mods) THEN [heap |-> heap, scored |-> n, error |-> FALSE]
    ELSE LET mod == mods[i]
             s == ScoreMod(query_lower, query_words, mod)
             item == [score |-> s.total_score, name |-> mod.name, mod |-> mod]
         IN IF s.skip THEN ScanMods(query_lower, query_words, mods, i + 1, heap, n)
            ELSE IF s.raises THEN [heap |-> heap, scored |-> n, error |-> TRUE]
            ELSE ScanMods(query_lower, query_words, mods, i + 1,
                          IF AboveThreshold(s.total_score, query_words)
                          THEN KeepTopMatches(heap, item) ELSE heap,
                          n + 1)

\* matches.sort(key=lambda x: x[0], reverse=True): stable, by score alone
RECURSIVE InsertByScore(_, _)
InsertByScore(sorted, x) ==
    IF sorted = <<>> THEN <<x>>
    ELSE IF Head(sorted).score < x.score THEN <<x>> \o sorted
    ELSE <<Head(sorted)>> \o InsertByScore(Tail(sorted), x)

RECURSIVE SortMatches(_, _)
SortMatches(items, sorted) ==
    IF items = <<>> THEN sorted
    ELSE SortMatches(Tail(items), InsertByScore(sorted, Head(items)))

\* matches = [(-score, mod) for score, name, mod in matches_heap], sorted
MatchesOf(heap) ==
    SortMatches([i \in 1..Len(heap) |-> [score |-> heap[i].score, mod |-> heap[i].mod]],
                <<>>)

\* the whole of perform_search for a query of at least 3 characters
SearchResult(query, mods) ==
    LET query_lower == Lower(query)
        query_words == Split(query_lower)
        r == ScanMods(query_lower, query_words, mods, 1, <<>>, 0)
    IN [matches |-> IF r.error THEN <<>> ELSE MatchesOf(r.heap),
        scored |-> r.scored,
        error |-> r.error]

-----------------------------------------------------------------------------
(* The catalogs and the queries of the model.                              *)

NameChars == <<"A", "a", "b">>
QueryChars == {"A", " "}
Descriptions == << <<"a", "a">>, <<"A", "a", " ", "b">>, <<"b", " ", "a", "a">> >>

NumPackages == Len(NameChars) * Len(NameChars) * Len(NameChars)

\* the name of package k: its three digits in base 3, as characters
PackageName(k) ==
    << NameChars[(k \div 9) + 1], NameChars[((k \div 3) % 3) + 1], NameChars[(k % 3) + 1] >>

\* the description of the newest version of package k; some have none
PackageDescription(k) ==
    IF k % 13 = 12 THEN <<>> ELSE Descriptions[(k % 3) + 1]

\* one entry of all_mods, as load_all_mods builds it
ModEntry(k) ==
    [name |-> PackageName(k),
     name_lower |-> Lower(PackageName(k)),
     description |-> PackageDescription(k),
     description_lower |-> Lower(PackageDescription(k))]

\* the catalog of n packages that lists package start first and then every
\* stride-th package
RECURSIVE Arrange(_, _, _)
Arrange(start, stride, n) ==
    IF n = 0 THEN <<>>
    ELSE <<ModEntry(start % NumPackages)>> \o Arrange(start + stride, stride, n - 1)

Strides == {1, 5, NumPackages - 1}

CatalogLens == (0..MaxSmallCatalog) \cup ((heap_max_size + 1)..MaxCatalog)

\* an entry whose name holds a space: load_all_mods takes mod["name"] from the
\* API's response as it is
SpacedEntry ==
    [name |-> <<"a", " ", "b">>,
     name_lower |-> <<"a", " ", "b">>,
     description |-> <<"a", "a">>,
     description_lower |-> <<"a", "a">>]

SpacedCatalogs == {<<SpacedEntry>>, <<ModEntry(0), SpacedEntry, ModEntry(1)>>}

Catalogs ==
    {Arrange(start, stride, n) : start \in 0..MaxStart, stride \in Strides, n \in CatalogLens}
        \cup SpacedCatalogs

Queries == Strings(QueryChars, 0, MaxQueryLen)

-----------------------------------------------------------------------------
(* ConfigManager: the configuration document, its in-memory copies and the *)
(* debounced save. An instance is [config, dirty, timer]; the operations   *)
(* take and return a record with the fields inst (the instance) and disk   *)
(* (the document in ~/.repohub/config.json).                               *)

\* `x in seq` for a Python list
SeqContains(seq, x) == \E i \in 1..Len(seq) : seq[i] = x

\* load_config() on a missing or unreadable file: {}
EmptyConfig ==
    [repo_path |-> <<>>, installed_mods |-> {}, installed_dependencies |-> <<>>]

\* ConfigManager(): load the document, nothing to save, no timer
NewConfigManager(disk) == [config |-> disk, dirty |-> FALSE, timer |-> FALSE]

\* _do_save_config(): write the whole in-memory document if it is dirty
DoSaveConfig(st) ==
    IF st.inst.dirty
    THEN [st EXCEPT !.disk = st.inst.config, !.inst.dirty = FALSE]
    ELSE st

\* _do_save_config() when open() or json.dump may raise: the exception is
\* printed, the file (taken here as not yet truncated) and _dirty stay
DoSaveConfigOutcome(st, write_ok) == IF write_ok THEN DoSaveConfig(st) ELSE st

\* save_config(immediate): write now, or (re)start the 0.5 s timer
SaveConfig_CancelOnly(st, immediate) ==
    IF immediate
    THEN DoSaveConfig([st EXCEPT !.inst.dirty = TRUE])
    ELSE [st EXCEPT !.inst.dirty = TRUE, !.inst.timer = ~st.inst.timer]

SaveConfig(st, immediate) ==
    IF immediate
    THEN DoSaveConfig([st EXCEPT !.inst.dirty = TRUE])
    ELSE [st EXCEPT !.inst.dirty = TRUE, !.inst.timer = TRUE]

\* set(key, value) for the key repo_path
SetRepoPath(st, path, immediate) ==
    SaveConfig([st EXCEPT !.inst.config.repo_path = path], immediate)

\* `mod_name in installed_mods`
HasInstalledMod(config, mod_name) ==
    \E r \in config.installed_mods : r.name = mod_name

\* add_installed_mod(mod_name, mod_data, immediate): installed_mods[mod_name] = mod_data
AddInstalledMod(st, mod_name, mod_data, immediate) ==
    SaveConfig([st EXCEPT !.inst.config.installed_mods =
                    {r \in @ : r.name # mod_name} \cup {mod_data}],
               immediate)

\* remove_installed_mod(mod_name, immediate)
RemoveInstalledMod_All(st, mod_name, immediate) ==
    SaveConfig([st EXCEPT !.inst.config.installed_mods = {}], immediate)

RemoveInstalledMod(st, mod_name, immediate) ==
    IF HasInstalledMod(st.inst.config, mod_name)
    THEN SaveConfig([st EXCEPT !.inst.config.installed_mods =
                         {r \in @ : r.name # mod_name}],
                    immediate)
    ELSE st

\* is_dependency_installed(dependency)
IsDependencyInstalled(inst, dependency) ==
    SeqContains(inst.config.installed_dependencies, dependency)

\* add_installed_dependency(dependency, immediate)
AddInstalledDependency_Append(st, dependency, immediate) ==
    SaveConfig([st EXCEPT !.inst.config.installed_dependencies = Append(@, dependency)],
               immediate)

AddInstalledDependency(st, dependency, immediate) ==
    IF ~IsDependencyInstalled(st.inst, dependency)
    THEN SaveConfig([st EXCEPT !.inst.config.installed_dependencies =
                         Append(@, dependency)],
                    immediate)
    ELSE st

\* a ConfigManager() made for one call: the document it leaves on disk
WithNewManager(disk) == [inst |-> NewConfigManager(disk), disk |-> disk]

-----------------------------------------------------------------------------
(* Packages, dependency references and the catalog of the package API.     *)

\* the markers of install_mod and add_to_mods
S_bepinex == <<"b", "e", "p", "i", "n", "e", "x">>
S_repolib == <<"r", "e", "p", "o", "l", "i", "b">>

\* package names: a mod, a package other mods depend on, and a library whose
\* name holds the marker "repolib"
ModName == <<"m">>
DepName == <<"d">>
LibName == <<"R", "E", "P", "O", "L", "i", "b">>
PkgNames == {ModName, DepName, LibName}

\* dependency references "author-name-version"
R_bep == <<"B", "e", "p", "I", "n", "E", "x", "-", "P", "-", "5">>
R_d1 == <<"a", "-", "d", "-", "1">>
R_d9 == <<"a", "-", "d", "-", "9">>
R_lib == <<"a", "-", "R", "E", "P", "O", "L", "i", "b">>
R_ghost == <<"a", "-", "g", "-", "1">>
R_bad == <<"d">>

\* response.json() of the package API: owner, name and published versions
ApiPackages ==
    << [owner |-> <<"a">>, name |-> DepName, versions |-> << <<"1">>, <<"2">> >>],
       [owner |-> <<"a">>, name |-> LibName, versions |-> << <<"1">> >>] >>

\* the version of the catalog entry the details view shows
CatalogVersion == <<"1">>

\* str.split(sep): the pieces between the separators, empty pieces included
RECURSIVE SplitOnFrom(_, _, _, _)
SplitOnFrom(s, sep, i, cur) ==
    IF i > Len(s) THEN <<cur>>
    ELSE IF s[i] = sep
         THEN <<cur>> \o SplitOnFrom(s, sep, i + 1, <<>>)
         ELSE SplitOnFrom(s, sep, i + 1, Append(cur, s[i]))

SplitOn(s, sep) == SplitOnFrom(s, sep, 1, <<>>)

\* sep.join(parts)
RECURSIVE Join(_, _)
Join(parts, sep) ==
    IF parts = <<>> THEN <<>>
    ELSE IF Len(parts) = 1 THEN parts[1]
    ELSE parts[1] \o <<sep>> \o Join(Tail(parts), sep)

\* the author, version (<<>> for None) and name of a split reference
dep_author(dep_parts) == dep_parts[1]

dep_version(dep_parts) ==
    IF Len(dep_parts) >= 3 THEN dep_parts[Len(dep_parts)] ELSE <<>>

dep_name_SecondToken(dep_parts) == dep_parts[2]

dep_name(dep_parts) ==
    IF Len(dep_parts) >= 3
    THEN Join(SubSeq(dep_parts, 2, Len(dep_parts) - 1), "-")
    ELSE dep_parts[2]

\* the positions of all_mods that carry this owner and name
MatchingMods(mods, author, name) ==
    {i \in 1..Len(mods) : mods[i].owner = author /\ mods[i].name = name}

SetMin(S) == CHOOSE x \in S : \A y \in S : x <= y

\* max(versions, key=version_number): the greatest version as a string
MaxVersion(versions) ==
    versions[SetMin({i \in 1..Len(versions) :
                        \A j \in 1..Len(versions) : ~StrLess(versions[i], versions[j])})]

\* the version data install_dependencies picks: [found, version]
ResolveVersion(versions, version) ==
    IF version # <<>>
    THEN [found |-> SeqContains(versions, version), version |-> version]
    ELSE [found |-> TRUE, version |-> MaxVersion(versions)]

\* "bepinex" in dep.lower()
BepInExRelated(dep) == Contains(S_bepinex, Lower(dep))

\* any(dep in mod_data['name'].lower() for dep in ['bepinex', 'repolib'])
is_dependency(name) ==
    \E marker \in {S_bepinex, S_repolib} : Contains(marker, Lower(name))

-----------------------------------------------------------------------------
(* The file system under BepInEx/plugins. A directory or an archive is     *)
(* [exists, files]; the files of a package are listed in archive order.    *)

Files == <<"plugin.dll", "icon.png">>
FileSet == {Files[i] : i \in 1..Len(Files)}

NoEntry == [exists |-> FALSE, files |-> {}]

\* the files written before an operation over these files stops half way
Partial(files) == files \cap {Files[i] : i \in 1..(Len(Files) - 1)}

\* the files left when a removal of these files stops half way
Leftover(files) == files \ {Files[1]}

\* target_dir of install_mod: plugins itself or plugins/<name>
TargetDir(tree, name) ==
    IF is_dependency(name) THEN tree.plugins ELSE tree.mod_dir[name]

WithTargetDir(tree, name, entry) ==
    IF is_dependency(name)
    THEN [tree EXCEPT !.plugins = entry]
    ELSE [tree EXCEPT !.mod_dir[name] = entry]

\* os.makedirs(path, exist_ok=True)
MakeDirs(entry) == [entry EXCEPT !.exists = TRUE]

\* ZipFile.extractall(path) of these files
ExtractAll(entry, files) == [exists |-> TRUE, files |-> entry.files \cup files]

-----------------------------------------------------------------------------
(* ModDetailsContent: install_mod, toggle_mod, uninstall_mod. A run is the *)
(* record [fs, disk, inst, installs, dep_log, failed]: the file system,    *)
(* the document on disk, the widget's own ConfigManager, and what the      *)
(* handler did so far. What the network and the file system do to a call   *)
(* is its fault.                                                           *)

NoFault == "none"
InstallFaults ==
    {"no_url", "download_error", "no_content_length", "bad_zip", "extract_error"}

\* the end of install_mod: the message box it shows
Installed(run) == [run |-> run, ok |-> TRUE, error |-> "Success"]
InstallFailed(run, title) == [run |-> run, ok |-> FALSE, error |-> title]

\* ConfigManager().add_installed_mod(name, mod_data, immediate=True), for main mods
RecordInstalled(run, mod_data) ==
    IF is_dependency(mod_data.name)
    THEN run
    ELSE [run EXCEPT !.disk =
              AddInstalledMod(WithNewManager(@), mod_data.name, mod_data, TRUE).disk]

\* the target directory after os.makedirs
MadeTarget(run, name) ==
    [run EXCEPT !.fs = WithTargetDir(@, name, MakeDirs(TargetDir(@, name)))]

\* the target directory after extractall wrote these files
Extracted(run, name, files) ==
    [run EXCEPT !.fs = WithTargetDir(@, name, ExtractAll(TargetDir(@, name), files))]

\* install_mod(mod_data)
InstallMod_RecordsFirst(run, mod_data, fault) ==
    IF fault = NoFault
    THEN Installed(RecordInstalled(Extracted(run, mod_data.name, FileSet), mod_data))
    ELSE InstallFailed(RecordInstalled(run, mod_data), "Error")

InstallMod(run, mod_data, fault) ==
    CASE fault = "no_url" ->
             InstallFailed(run, "Error")
      [] fault = "download_error" ->
             InstallFailed(MadeTarget(run, mod_data.name), "Download Error")
      [] fault = "no_content_length" ->
             InstallFailed(MadeTarget(run, mod_data.name), "Error")
      [] fault = "bad_zip" ->
             InstallFailed(MadeTarget(run, mod_data.name), "Extraction Error")
      [] fault = "extract_error" ->
             InstallFailed(Extracted(run, mod_data.name, Partial(FileSet)), "Error")
      [] OTHER ->
             Installed(RecordInstalled(Extracted(run, mod_data.name, FileSet), mod_data))

\* one call of install_mod, with what it did appended to run.installs
LogInstall(before, res, mod_data) ==
    [res.run EXCEPT
        !.installs = Append(@, [name |-> mod_data.name,
                                version |-> mod_data.version,
                                ok |-> res.ok,
                                error |-> res.error,
                                target_before |-> TargetDir(before.fs, mod_data.name),
                                target_after |-> TargetDir(res.run.fs, mod_data.name),
                                store_unchanged |-> /\ res.run.disk = before.disk
                                                    /\ res.run.inst.config = before.inst.config]),
        !.failed = IF res.ok THEN @ ELSE @ \cup {mod_data.name}]

InstallCall(run, mod_data, fault) ==
    LogInstall(run, InstallMod(run, mod_data, fault), mod_data)

ToggleFaults == {"archive_error", "rmtree_error", "extract_error", "remove_error"}

\* the end of toggle_mod: the file system it leaves, and the step it reached
Toggled(run, ok, step) == [run |-> run, ok |-> ok, step |-> step]

\* toggle_mod(), the branch `if os.path.exists(mod_dir)`: write the archive,
\* then remove the directory
ToggleDisable_RemoveFirst(run, name, fault) ==
    Toggled([run EXCEPT !.fs.mod_dir[name] = NoEntry,
                        !.fs.disabled_mods[name] =
                 [exists |-> TRUE,
                  files |-> IF fault = "archive_error"
                            THEN Partial(run.fs.mod_dir[name].files)
                            ELSE run.fs.mod_dir[name].files]],
            fault = NoFault,
            CASE fault = "archive_error" -> "archive"
              [] fault = "rmtree_error" -> "rmtree"
              [] OTHER -> "disabled")

ToggleDisable(run, name, fault) ==
    LET mod_dir == run.fs.mod_dir[name]
    IN CASE fault = "archive_error" ->
                Toggled([run EXCEPT !.fs.disabled_mods[name] =
                             [exists |-> TRUE, files |-> Partial(mod_dir.files)]],
                        FALSE, "archive")
         [] fault = "rmtree_error" ->
                Toggled([run EXCEPT !.fs.disabled_mods[name] =
                             [exists |-> TRUE, files |-> mod_dir.files],
                                    !.fs.mod_dir[name] =
                             [exists |-> TRUE, files |-> Leftover(mod_dir.files)]],
                        FALSE, "rmtree")
         [] OTHER ->
                Toggled([run EXCEPT !.fs.disabled_mods[name] =
                             [exists |-> TRUE, files |-> mod_dir.files],
                                    !.fs.mod_dir[name] = NoEntry],
                        TRUE, "disabled")

\* toggle_mod(), the branch `elif os.path.exists(zip_path)`: make the
\* directory, extract the archive into it, then remove the archive
ToggleEnable_FirstFileOnly(run, name, fault) ==
    Toggled([run EXCEPT !.fs.mod_dir[name] =
                 [exists |-> TRUE, files |-> Partial(run.fs.disabled_mods[name].files)],
                        !.fs.disabled_mods[name] = NoEntry],
            TRUE, "enabled")

ToggleEnable(run, name, fault) ==
    LET zip == run.fs.disabled_mods[name]
    IN CASE fault = "extract_error" ->
                Toggled([run EXCEPT !.fs.mod_dir[name] =
                             [exists |-> TRUE, files |-> Partial(zip.files)]],
                        FALSE, "extract")
         [] fault = "remove_error" ->
                Toggled([run EXCEPT !.fs.mod_dir[name] =
                             [exists |-> TRUE, files |-> zip.files]],
                        FALSE, "remove")
         [] OTHER ->
                Toggled([run EXCEPT !.fs.mod_dir[name] =
                             [exists |-> TRUE, files |-> zip.files],
                                    !.fs.disabled_mods[name] = NoEntry],
                        TRUE, "enabled")

\* toggle_mod() of the details view of package name
ToggleMod(run, name, fault) ==
    IF run.fs.mod_dir[name].exists
    THEN ToggleDisable(run, name, fault)
    ELSE IF run.fs.disabled_mods[name].exists
    THEN ToggleEnable(run, name, fault)
    ELSE Toggled(run, TRUE, "none")

UninstallFaults == {"remove_error"}

\* uninstall_mod() of the details view of package name, answered Yes
UninstallMod(run, name, fault) ==
    IF fault = "remove_error"
          /\ (run.fs.disabled_mods[name].exists \/ run.fs.mod_dir[name].exists)
    THEN [run |-> run, ok |-> FALSE]
    ELSE [run |-> [run EXCEPT
                      !.fs = IF @.disabled_mods[name].exists
                             THEN [@ EXCEPT !.disabled_mods[name] = NoEntry]
                             ELSE IF @.mod_dir[name].exists
                             THEN [@ EXCEPT !.mod_dir[name] = NoEntry]
                             ELSE @,
                      !.disk = RemoveInstalledMod(WithNewManager(@), name, TRUE).disk],
          ok |-> TRUE]

-----------------------------------------------------------------------------
(* ModDetailsContent: add_to_mods and install_dependencies.                *)

\* the fault of the install of package name under a fault plan
FaultFor(name, plan) == IF name = plan.pkg THEN plan.kind ELSE NoFault

\* add_to_mods, first part: with BepInEx present and no BepInEx-related
\* dependency marked, mark the first such dependency of the mod
MarkBepInEx(run, dependencies) ==
    IF \E i \in 1..Len(run.inst.config.installed_dependencies) :
           BepInExRelated(run.inst.config.installed_dependencies[i])
    THEN run
    ELSE IF \E i \in 1..Len(dependencies) : BepInExRelated(dependencies[i])
    THEN AddInstalledDependency(
             run,
             dependencies[SetMin({i \in 1..Len(dependencies) :
                                     BepInExRelated(dependencies[i])})],
             FALSE)
    ELSE run

\* filtered_dependencies
NotBepInExRelated(dep) == ~BepInExRelated(dep)
FilteredDependencies(dependencies) == SelectSeq(dependencies, NotBepInExRelated)

\* DependencyDialog.setup_ui: one list item per dependency of two or more parts
HasTwoParts(dep) == Len(SplitOn(dep, "-")) >= 2
DialogItems(dependencies) == SelectSeq(dependencies, HasTwoParts)

\* get_selected_dependencies: dependencies[i] for every checked item i; an item
\* is checked unless the store has it installed or the user unchecked it
RECURSIVE SelectedFrom(_, _, _, _, _)
SelectedFrom(dependencies, items, disk, unchecked, i) ==
    IF i > Len(items) THEN <<>>
    ELSE (IF /\ ~SeqContains(disk.installed_dependencies, items[i])
             /\ i \notin unchecked
          THEN <<dependencies[i]>>
          ELSE <<>>)
         \o SelectedFrom(dependencies, items, disk, unchecked, i + 1)

SelectedDependencies(dependencies, disk, unchecked) ==
    SelectedFrom(dependencies, DialogItems(dependencies), disk, unchecked, 1)

\* an entry of run.dep_log: what the loop did with one dependency
DepEntry(dep, name, step, install_ok, marked) ==
    [dep |-> dep, name |-> name, step |-> step, install_ok |-> install_ok,
     marked |-> marked]

Logged(run, entry) == [run EXCEPT !.dep_log = Append(@, entry)]

\* install_mod for a resolved dependency, then add_installed_dependency(dep)
InstallDependency(run, dep, mod_data, fault) ==
    CHOOSE out \in
        {Logged(AddInstalledDependency(r, dep, FALSE),
                DepEntry(dep, mod_data.name, "installed",
                         r.installs[Len(r.installs)].ok,
                         IsDependencyInstalled(
                             AddInstalledDependency(r, dep, FALSE).inst, dep)))
           : r \in {InstallCall(run, mod_data, fault)}} : TRUE

\* raise Exception(...): the loop ends and the message names `named`
Raise(run, dep, named) ==
    [Logged(run, DepEntry(dep, named, "raised", FALSE, FALSE))
        EXCEPT !.loop_error = named]

\* the for loop of install_dependencies, from position i
RECURSIVE DependencyLoop(_, _, _, _)
DependencyLoop(run, dependencies, i, plan) ==
    IF i > Len(dependencies) THEN run
    ELSE IF IsDependencyInstalled(run.inst, dependencies[i])
    THEN DependencyLoop(
             Logged(run, DepEntry(dependencies[i], <<>>, "skipped", FALSE, FALSE)),
             dependencies, i + 1, plan)
    ELSE LET dep == dependencies[i]
             dep_parts == SplitOn(dep, "-")
         IN IF Len(dep_parts) < 2
            THEN Raise(run, dep, dep)
            ELSE LET name == dep_name(dep_parts)
                     matching == MatchingMods(ApiPackages, dep_author(dep_parts), name)
                 IN IF matching = {}
                    THEN Raise(run, dep, name)
                    ELSE LET v == ResolveVersion(ApiPackages[SetMin(matching)].versions,
                                                 dep_version(dep_parts))
                         IN IF ~v.found
                            THEN Raise(run, dep, name)
                            ELSE DependencyLoop(
                                     InstallDependency(
                                         run, dep,
                                         [name |-> name, version |-> v.version],
                                         FaultFor(name, plan)),
                                     dependencies, i + 1, plan)

\* install_dependencies(dependencies)
InstallDependencies(run, dependencies, fetch_ok, plan) ==
    IF ~fetch_ok
    THEN [run EXCEPT !.loop_error = <<"f", "e", "t", "c", "h">>]
    ELSE DependencyLoop(run, dependencies, 1, plan)

\* add_to_mods() of the details view of mod_data, with BepInEx present
AddToModsRun(run, mod_data, dependencies, accepted, unchecked, fetch_ok, plan) ==
    CHOOSE out \in
        {IF filtered = <<>>
         THEN InstallCall(marked, mod_data, FaultFor(mod_data.name, plan))
         ELSE IF ~accepted
         THEN marked
         ELSE InstallCall(
                  IF SelectedDependencies(filtered, marked.disk, unchecked) = <<>>
                  THEN marked
                  ELSE InstallDependencies(
                           marked,
                           SelectedDependencies(filtered, marked.disk, unchecked),
                           fetch_ok, plan),
                  mod_data, FaultFor(mod_data.name, plan))
           : marked \in {MarkBepInEx(run, dependencies)},
             filtered \in {FilteredDependencies(dependencies)}} : TRUE

-----------------------------------------------------------------------------
(* The handlers as actions.                                                *)

\* the search bar before the user types
InitSearchIdle ==
    /\ all_mods = <<>>
    /\ search_text = <<>>
    /\ search_timer = FALSE
    /\ matches = <<>>
    /\ search_results_layout = <<>>
    /\ n_scored = 0
    /\ search_done = FALSE
    /\ search_error = FALSE

Instances == {"details", "library"}

\* no scratch archive under this name
NoTemp == [exists |-> FALSE, chunks |-> 0]

\* ExploreTab before load_all_mods ran
NotLoaded == [called |-> FALSE, prior |-> <<>>, failure |-> "none"]

NoOp ==
    [op |-> "none", name |-> <<>>, ok |-> TRUE, step |-> "none", installs |-> <<>>,
     dep_log |-> <<>>, loop_error |-> <<>>]

\* the state a handler of the details view starts from
StartRun ==
    [fs |-> fs, disk |-> disk_config, inst |-> managers["details"],
     installs |-> <<>>, dep_log |-> <<>>, failed |-> {}, loop_error |-> <<>>]

\* the state a handler leaves
Finish(run, op, name, ok, step) ==
    /\ fs' = run.fs
    /\ disk_config' = run.disk
    /\ managers' = [managers EXCEPT !["details"] = run.inst]
    /\ failed' = failed \cup run.failed \cup (IF ok THEN {} ELSE {name})
    /\ last_op' = [op |-> op, name |-> name, ok |-> ok, step |-> step,
                   installs |-> run.installs, dep_log |-> run.dep_log,
                   loop_error |-> run.loop_error]

\* an empty plugins folder, an empty document, and the ConfigManager instances
\* the window creates at start
InitInstall ==
    /\ fs = [mod_dir |-> [n \in PkgNames |-> NoEntry],
             disabled_mods |-> [n \in PkgNames |-> NoEntry],
             plugins |-> [exists |-> TRUE, files |-> {}]]
    /\ disk_config = [EmptyConfig EXCEPT !.repo_path = <<"r">>]
    /\ managers = [i \in Instances |->
                       NewConfigManager([EmptyConfig EXCEPT !.repo_path = <<"r">>])]
    /\ failed = {}
    /\ last_op = NoOp
    /\ expected = [mods |-> {}, deps |-> {}]
    /\ runs = 0
    /\ load = NotLoaded
    /\ calls = <<>>
    /\ temp_files = [n \in PkgNames |-> NoTemp]
    /\ finished = <<>>

\* the window at start, before the user typed or clicked
Init == InitInstall /\ InitSearchIdle

\* the user opens the details view of a package: ModDetailsContent.__init__
OpenDetails ==
    /\ ~managers["details"].timer
    /\ managers' = [managers EXCEPT !["details"] = NewConfigManager(disk_config)]
    /\ last_op' = [NoOp EXCEPT !.op = "open"]
    /\ UNCHANGED <<fs, disk_config, failed, expected, runs, search_vars, call_vars>>

\* the save timer of instance i fires: _do_save_config on the timer's thread
SaveTimerFires(i) ==
    /\ managers[i].timer
    /\ \E st \in {DoSaveConfig([inst |-> managers[i], disk |-> disk_config])} :
           /\ managers' = [managers EXCEPT ![i] = [st.inst EXCEPT !.timer = FALSE]]
           /\ disk_config' = st.disk
    /\ last_op' = [NoOp EXCEPT !.op = "save"]
    /\ UNCHANGED <<fs, failed, expected, runs, search_vars, call_vars>>

\* add_to_mods() on the details view of the catalog entry of package name
AddToMods(name, dependencies, accepted, unchecked, fetch_ok, plan) ==
    /\ \E run \in {AddToModsRun(StartRun, [name |-> name, version |-> CatalogVersion],
                                dependencies, accepted, unchecked, fetch_ok, plan)} :
           Finish(run, "add_to_mods", name,
                  run.installs # <<>> /\ run.installs[Len(run.installs)].ok, "none")
    /\ UNCHANGED <<expected, search_vars, call_vars>>

\* toggle_mod() on the library's details view of package name
ToggleModClicked(name, fault) ==
    /\ HasInstalledMod(disk_config, name)
    /\ \E res \in {ToggleMod(StartRun, name, fault)} :
           Finish(res.run, "toggle", name, res.ok, res.step)
    /\ UNCHANGED <<expected, search_vars, call_vars>>

\* uninstall_mod() on the library's details view of package name
UninstallModClicked(name, reply, fault) ==
    /\ HasInstalledMod(disk_config, name)
    /\ IF reply = "Yes"
       THEN \E res \in {UninstallMod(StartRun, name, fault)} :
                Finish(res.run, "uninstall", name, res.ok, "none")
       ELSE /\ last_op' = [NoOp EXCEPT !.op = "uninstall_declined", !.name = name]
            /\ UNCHANGED <<fs, disk_config, managers, failed>>
    /\ UNCHANGED <<expected, search_vars, call_vars>>

\* no fault, or one package whose install fails in one way
FaultPlans(names, kinds) ==
    {[pkg |-> <<>>, kind |-> NoFault]} \cup {[pkg |-> n, kind |-> k] : n \in names, k \in kinds}

\* the life cycle of one package: its catalog entry has no dependencies, or
\* the BepInEx pack as its only dependency
LifecycleNames == {ModName}
LifecycleDependencies == {<<>>, <<R_bep>>}

Next ==
    \/ OpenDetails
    \/ \E i \in Instances : SaveTimerFires(i)
    \/ \E name \in LifecycleNames, dependencies \in LifecycleDependencies,
          plan \in FaultPlans(LifecycleNames, InstallFaults) :
           /\ plan.pkg \in {<<>>, name}
           /\ AddToMods(name, dependencies, TRUE, {}, TRUE, plan)
           /\ UNCHANGED runs
    \/ \E name \in LifecycleNames, fault \in {NoFault} \cup ToggleFaults :
           ToggleModClicked(name, fault) /\ UNCHANGED runs
    \/ \E name \in LifecycleNames, reply \in {"Yes", "No"},
          fault \in {NoFault} \cup UninstallFaults :
           UninstallModClicked(name, reply, fault) /\ UNCHANGED runs

Spec == Init /\ [][Next]_vars

\* mods with dependencies: the dependency dialog and the dependency loop
DependencyLists ==
    { <<R_bep, R_d1, R_lib>>, <<R_ghost, R_d1>>, <<R_bad, R_d1>>, <<R_d9>> }
DependencyFaults == {"download_error", "extract_error"}

NextDeps ==
    \/ OpenDetails
    \/ \E i \in Instances : SaveTimerFires(i)
    \/ \E dependencies \in DependencyLists, accepted \in BOOLEAN,
          unchecked \in SUBSET (1..MaxUnchecked), fetch_ok \in BOOLEAN,
          plan \in FaultPlans(PkgNames, DependencyFaults) :
           /\ accepted \/ (unchecked = {} /\ fetch_ok /\ plan.kind = NoFault)
           /\ runs < MaxRuns
           /\ runs' = runs + 1
           /\ AddToMods(ModName, dependencies, accepted, unchecked, fetch_ok, plan)

SpecDeps == Init /\ [][NextDeps]_vars

\* dependency references of every shape: authors, names and versions made of
\* a few characters, with any number of hyphens
RefChars == {"a", "d", "-", "1"}
References == Strings(RefChars, 1, MaxRefLen)

\* the dependencies of a mod that bring this reference to install_dependencies:
\* the dialog has no item for a reference of one part, and hands over the
\* dependency at the position of each checked item
DependenciesWith(dep) == IF HasTwoParts(dep) THEN <<dep>> ELSE <<dep, R_d1>>

\* add_to_mods() on a mod that depends on this reference, every download working
ResolveReference(dep) ==
    /\ runs = 0
    /\ runs' = 1
    /\ AddToMods(ModName, DependenciesWith(dep), TRUE, {}, TRUE,
                 [pkg |-> <<>>, kind |-> NoFault])

NextParse == \E dep \in References : ResolveReference(dep)

SpecParse == Init /\ [][NextParse]_vars

-----------------------------------------------------------------------------
(* install_mod block by block. The download loop calls                     *)
(* QApplication.processEvents() after every block, which runs the handlers *)
(* of the clicks that are pending: a click on the window's buttons unless  *)
(* the window-modal progress dialog is on screen, and a click on the       *)
(* dialog's Cancel button when it is. Whether the dialog has come up is    *)
(* Qt's decision (QProgressDialog shows itself once it expects the         *)
(* operation to take long). A call in progress is                          *)
(* [name, total_size, downloaded, shown, canceled, at_cancel].             *)

DownloadNames == {ModName, LibName}

\* int(response.headers.get('content-length', 0)), in blocks
ContentLengths == {0, MaxChunks}

\* the innermost install_mod call
Top == calls[Len(calls)]

\* control is in processEvents() of the innermost call
Pumping == calls # <<>> /\ Top.downloaded > 0

\* another call in progress has the scratch archive of this name open
HeldByOuterCall(name) == \E i \in 1..(Len(calls) - 1) : calls[i].name = name

\* install_mod returned: what it did, appended to finished
Returned(call, ok, extracted, recorded, temp_removed) ==
    [name |-> call.name, total_size |-> call.total_size, ok |-> ok,
     canceled |-> call.canceled,
     after_cancel |-> IF call.canceled THEN call.downloaded - call.at_cancel ELSE 0,
     extracted |-> extracted, recorded |-> recorded, temp_removed |-> temp_removed]

\* the innermost call returns
Return(entry) ==
    /\ calls' = SubSeq(calls, 1, Len(calls) - 1)
    /\ finished' = Append(finished, entry)

\* finally: os.remove(temp_file) if it exists; the removal of a file that an
\* outer call holds open works or fails with the platform, and the failure is
\* only printed
RemoveTemp(name, removed) ==
    temp_files' = [temp_files EXCEPT ![name] = IF removed THEN NoTemp ELSE @]

Removals(name) == IF HeldByOuterCall(name) THEN BOOLEAN ELSE {TRUE}

\* f.write(data) through the handle of a call that has written `downloaded`
\* blocks: the same bytes at the same offsets, whoever wrote them first; a
\* file that was removed meanwhile is no longer under the name
WriteBlock(temp, downloaded) ==
    IF temp.exists THEN [temp EXCEPT !.chunks = Max(@, downloaded)] ELSE temp

\* add_to_mods() on a mod without dependencies: install_mod up to the open of
\* the scratch archive
AddToModsClicked(name, total_size) ==
    /\ Len(calls) < MaxDepth
    /\ Len(calls) + Len(finished) < MaxInstalls
    /\ calls = <<>> \/ (Pumping /\ ~Top.shown)
    /\ fs' = MadeTarget(StartRun, name).fs
    /\ temp_files' = [temp_files EXCEPT ![name] = [exists |-> TRUE, chunks |-> 0]]
    /\ calls' = Append(calls, [name |-> name, total_size |-> total_size,
                               downloaded |-> 0, shown |-> FALSE,
                               canceled |-> FALSE, at_cancel |-> 0])
    /\ UNCHANGED <<disk_config, managers, failed, last_op, expected, runs,
                   load, finished, search_vars>>

\* one pass of the download loop: write the block, set the progress value
\* (a division by total_size), pump the events
ReceiveBlock(show) ==
    /\ calls # <<>>
    /\ Top.downloaded < MaxChunks
    /\ IF Top.total_size = 0
       THEN \E removed \in Removals(Top.name) :
                /\ RemoveTemp(Top.name, removed)
                /\ Return(Returned([Top EXCEPT !.downloaded = @ + 1], FALSE, FALSE, FALSE,
                                   ~temp_files'[Top.name].exists))
       ELSE /\ temp_files' = [temp_files EXCEPT ![Top.name] =
                                  WriteBlock(@, Top.downloaded + 1)]
            /\ calls' = [calls EXCEPT ![Len(calls)] =
                             [@ EXCEPT !.downloaded = @ + 1, !.shown = @ \/ show]]
            /\ UNCHANGED finished
    /\ UNCHANGED <<fs, disk_config, managers, failed, last_op, expected, runs,
                   load, search_vars>>

\* the user clicks Cancel on the progress dialog: QProgressDialog hides and
\* remembers it; install_mod never asks
CancelClicked ==
    /\ Pumping
    /\ Top.shown
    /\ ~Top.canceled
    /\ calls' = [calls EXCEPT ![Len(calls)] =
                     [@ EXCEPT !.canceled = TRUE, !.at_cancel = Top.downloaded,
                               !.shown = FALSE]]
    /\ UNCHANGED <<fs, disk_config, managers, failed, last_op, expected, runs,
                   load, temp_files, finished, search_vars>>

\* the stream ended: extract the scratch archive, remove it, record the mod
StreamEnds ==
    /\ calls # <<>>
    /\ Top.downloaded = MaxChunks
    /\ \E removed \in Removals(Top.name) :
           /\ RemoveTemp(Top.name, removed)
           /\ IF temp_files[Top.name].exists
              THEN /\ fs' = Extracted(StartRun, Top.name, FileSet).fs
                   /\ disk_config' =
                          RecordInstalled(StartRun, [name |-> Top.name,
                                                     version |-> CatalogVersion]).disk
                   /\ Return(Returned(Top, TRUE, TRUE, ~is_dependency(Top.name),
                                      ~temp_files'[Top.name].exists))
              ELSE /\ UNCHANGED <<fs, disk_config>>
                   /\ Return(Returned(Top, FALSE, FALSE, FALSE, TRUE))
    /\ UNCHANGED <<managers, failed, last_op, expected, runs, load, search_vars>>

NextDownload ==
    \/ \E name \in DownloadNames, total_size \in ContentLengths :
           AddToModsClicked(name, total_size)
    \/ \E show \in BOOLEAN : ReceiveBlock(show)
    \/ CancelClicked
    \/ StreamEnds

SpecDownload == Init /\ [][NextDownload]_vars

-----------------------------------------------------------------------------
(* The store alone: the calls the windows make on their ConfigManager      *)
(* instances, and the save timers.                                         *)

StoreNames == {ModName, DepName}
StoreVersions == {<<"1">>, <<"2">>}
StoreDependencies == {R_bep, R_d1}
StorePaths == {<<>>, <<"r">>}

\* install_mod, last step: ConfigManager().add_installed_mod(.., immediate=True)
StoreAddInstalledMod(name, version) ==
    /\ disk_config' = AddInstalledMod(WithNewManager(disk_config), name,
                                      [name |-> name, version |-> version], TRUE).disk
    /\ expected' = [expected EXCEPT !.mods =
                        {r \in @ : r.name # name} \cup {[name |-> name, version |-> version]}]
    /\ UNCHANGED <<managers, fs, failed, last_op, runs, search_vars, call_vars>>

\* uninstall_mod and remove_mod: ConfigManager().remove_installed_mod(.., immediate=True)
StoreRemoveInstalledMod(name) ==
    /\ disk_config' = RemoveInstalledMod(WithNewManager(disk_config), name, TRUE).disk
    /\ expected' = [expected EXCEPT !.mods = {r \in @ : r.name # name}]
    /\ UNCHANGED <<managers, fs, failed, last_op, runs, search_vars, call_vars>>

\* add_to_mods and install_dependencies: self.config.add_installed_dependency(dep)
StoreAddInstalledDependency(dep) ==
    /\ \E st \in {AddInstalledDependency([inst |-> managers["details"], disk |-> disk_config],
                                         dep, FALSE)} :
           /\ managers' = [managers EXCEPT !["details"] = st.inst]
           /\ disk_config' = st.disk
    /\ expected' = [expected EXCEPT !.deps = @ \cup {dep}]
    /\ UNCHANGED <<fs, failed, last_op, runs, search_vars, call_vars>>

\* validate_repo_path: self.config.set('repo_path', path) on the library tab
StoreSetRepoPath(path) ==
    /\ \E st \in {SetRepoPath([inst |-> managers["library"], disk |-> disk_config],
                              path, FALSE)} :
           /\ managers' = [managers EXCEPT !["library"] = st.inst]
           /\ disk_config' = st.disk
    /\ UNCHANGED <<expected, fs, failed, last_op, runs, search_vars, call_vars>>

\* a new details view: a new ConfigManager for it
StoreOpenDetails ==
    /\ ~managers["details"].timer
    /\ managers["details"].config # disk_config
    /\ managers' = [managers EXCEPT !["details"] = NewConfigManager(disk_config)]
    /\ UNCHANGED <<disk_config, expected, fs, failed, last_op, runs, search_vars, call_vars>>

StoreTimerFires(i) ==
    /\ managers[i].timer
    /\ \E st \in {DoSaveConfig([inst |-> managers[i], disk |-> disk_config])} :
           /\ managers' = [managers EXCEPT ![i] = [st.inst EXCEPT !.timer = FALSE]]
           /\ disk_config' = st.disk
    /\ UNCHANGED <<expected, fs, failed, last_op, runs, search_vars, call_vars>>

NextStore ==
    \/ \E name \in StoreNames, version \in StoreVersions : StoreAddInstalledMod(name, version)
    \/ \E name \in StoreNames : StoreRemoveInstalledMod(name)
    \/ \E dep \in StoreDependencies : StoreAddInstalledDependency(dep)
    \/ \E path \in StorePaths : StoreSetRepoPath(path)
    \/ StoreOpenDetails
    \/ \E i \in Instances : StoreTimerFires(i)

SpecStore == Init /\ [][NextStore]_vars

\* the threading.Timer of instance i runs _do_save_config, and the write
\* works or raises
StoreSaveFires(i, write_ok) ==
    /\ managers[i].timer
    /\ \E st \in {DoSaveConfigOutcome([inst |-> managers[i], disk |-> disk_config],
                                      write_ok)} :
           /\ managers' = [managers EXCEPT ![i] = [st.inst EXCEPT !.timer = FALSE]]
           /\ disk_config' = st.disk
    /\ last_op' = [NoOp EXCEPT !.op = "save", !.step = i, !.ok = write_ok]
    /\ UNCHANGED <<expected, fs, failed, runs, search_vars, call_vars>>

\* the debounced saves of the two long-lived instances, next to an install
\* that writes the file through its own ConfigManager()
NextStoreLive ==
    \/ StoreAddInstalledMod(ModName, CatalogVersion)
    \/ \E dep \in StoreDependencies : StoreAddInstalledDependency(dep)
    \/ \E path \in StorePaths : StoreSetRepoPath(path)
    \/ StoreOpenDetails
    \/ \E i \in Instances, write_ok \in BOOLEAN : StoreSaveFires(i, write_ok)

\* a started threading.Timer runs its function after 0.5 s unless cancel() was
\* called on it
SpecStoreLive ==
    /\ Init
    /\ [][NextStoreLive]_vars
    /\ \A i \in Instances : WF_vars(\E write_ok \in BOOLEAN : StoreSaveFires(i, write_ok))

-----------------------------------------------------------------------------
(* ExploreTab: the search handlers.                                        *)

\* len(query) < 3
TooShort_Empty(query) == Len(query) = 0
TooShort(query) == Len(query) < MinQueryLen

InitSearch ==
    /\ InitInstall
    /\ all_mods \in Catalogs
    /\ search_text = <<>>
    /\ search_timer = FALSE
    /\ matches = <<>>
    /\ search_results_layout = <<>>
    /\ n_scored = 0
    /\ search_done = FALSE
    /\ search_error = FALSE

\* handle_search(query): the search bar's text changed to query
HandleSearch(query) ==
    /\ query # search_text
    /\ search_text' = query
    /\ search_timer' = IF TooShort(query) THEN search_timer ELSE TRUE
    /\ search_done' = FALSE
    /\ UNCHANGED <<all_mods, matches, search_results_layout, n_scored, search_error, install_vars, call_vars>>

\* perform_search(): the search timer fired
PerformSearch ==
    /\ search_timer
    /\ search_timer' = FALSE
    /\ search_done' = TRUE
    /\ IF TooShort(search_text)
       THEN /\ matches' = <<>>
            /\ n_scored' = 0
            /\ search_error' = FALSE
            /\ UNCHANGED search_results_layout
       ELSE \E r \in {SearchResult(search_text, all_mods)} :
            /\ matches' = r.matches
            /\ n_scored' = r.scored
            /\ search_error' = r.error
            /\ search_results_layout' = [i \in 1..Len(r.matches) |-> r.matches[i].mod.name]
    /\ UNCHANGED <<all_mods, search_text, install_vars, call_vars>>

NextSearch ==
    \/ \E query \in Queries : HandleSearch(query)
    \/ PerformSearch

SpecSearch == InitSearch /\ [][NextSearch]_vars

-----------------------------------------------------------------------------
(* ExploreTab: load_all_mods, called once by ExploreTab.__init__.          *)

S_modpack == <<"m", "o", "d", "p", "a", "c", "k">>

\* a package of the API's list: its name and its versions, oldest first
RawPackage(k) ==
    [name |-> PackageName(k),
     versions |-> << [version_number |-> <<"1">>, description |-> <<"b">>],
                     [version_number |-> <<"2">>, description |-> PackageDescription(k)] >>]

\* the BepInEx pack, which the catalog view leaves out
RawBepInEx == [name |-> <<"B", "e", "p", "I", "n", "E", "x">>, versions |-> <<>>]

\* a package without versions: max() of its empty list raises ValueError
RawMalformed == [name |-> PackageName(0), versions |-> <<>>]

RawPackages == {RawPackage(k) : k \in 0..MaxPackage} \cup {RawBepInEx, RawMalformed}

\* what the GET of the package list gives: no answer, a status, a list
ApiResponses ==
    {[kind |-> "network_error", status |-> 0, data |-> <<>>],
     [kind |-> "answer", status |-> 500, data |-> <<>>]}
    \cup {[kind |-> "answer", status |-> 200, data |-> d] :
              d \in UNION {[1..n -> RawPackages] : n \in 0..MaxApiLen}}

\* max(mod["versions"], key=version_number): the first of the greatest
newest_version(versions) ==
    versions[SetMin({i \in 1..Len(versions) :
                        \A j \in 1..Len(versions) :
                            ~StrLess(versions[i].version_number, versions[j].version_number)})]

\* "modpack" in mod_name_lower or "bepinex" in mod_name_lower
SkippedName(mod_name_lower) ==
    Contains(S_modpack, mod_name_lower) \/ Contains(S_bepinex, mod_name_lower)

\* the entry appended for a package
CatalogEntry(mod) ==
    [name |-> mod.name,
     name_lower |-> Lower(mod.name),
     description |-> newest_version(mod.versions).description,
     description_lower |-> Lower(newest_version(mod.versions).description)]

\* the for loop over data, appending to self.all_mods, from position i
RECURSIVE RebuildFrom(_, _, _)
RebuildFrom(data, i, cache) ==
    IF i > Len(data) THEN [all_mods |-> cache, failure |-> "none"]
    ELSE IF SkippedName(Lower(data[i].name)) THEN RebuildFrom(data, i + 1, cache)
    ELSE IF data[i].versions = <<>> THEN [all_mods |-> cache, failure |-> "malformed"]
    ELSE RebuildFrom(data, i + 1, Append(cache, CatalogEntry(data[i])))

\* load_all_mods(): the cache it leaves and how it failed
load_all_mods(cache, response) ==
    CASE response.kind = "network_error" -> [all_mods |-> cache, failure |-> "network"]
      [] response.status # 200 -> [all_mods |-> cache, failure |-> "status"]
      [] OTHER -> RebuildFrom(response.data, 1, <<>>)

\* ExploreTab.__init__ calls load_all_mods
LoadAllMods(response) ==
    /\ ~load.called
    /\ \E r \in {load_all_mods(all_mods, response)} :
           /\ all_mods' = r.all_mods
           /\ load' = [called |-> TRUE, prior |-> all_mods, failure |-> r.failure]
    /\ UNCHANGED <<search_text, search_timer, matches, search_results_layout, n_scored,
                   search_done, search_error, install_vars, calls, temp_files, finished>>

NextCatalog == \E response \in ApiResponses : LoadAllMods(response)

SpecCatalog == Init /\ [][NextCatalog]_vars

-----------------------------------------------------------------------------
(* Properties of the search.                                               *)

\* the score a result entry needs: more than 35, on the scale of the query
MinScore(query) == 35 * 10000 * Max(1, Len(Split(Lower(query))))

\* the positions of all_mods that perform_search scores above 35 for query
Qualifying(query) ==
    {i \in 1..Len(all_mods) :
        \E s \in {ScoreMod(Lower(query), Split(Lower(query)), all_mods[i])} :
            ~s.skip /\ ~s.raises /\ s.total_score > MinScore(query)}

ScoreAt(query, i) ==
    ScoreMod(Lower(query), Split(Lower(query)), all_mods[i]).total_score

InMatches(mod) == \E j \in 1..Len(matches) : matches[j].mod = mod

SearchRan == search_done /\ Len(search_text) >= 3 /\ ~search_error

\* C3: the search returns the 20 highest-scoring entries among those scoring
\* above 35 (all of them when fewer than 20 qualify): no qualifying entry left
\* out of the result scores strictly higher than an entry of the result.
C3_Top20Highest ==
    SearchRan =>
        /\ Len(matches) = Min(20, Cardinality(Qualifying(search_text)))
        /\ \A i \in Qualifying(search_text) :
               ~InMatches(all_mods[i]) =>
                   \A j \in 1..Len(matches) :
                       ScoreAt(search_text, i) <= matches[j].score

\* C4: the search output is sorted by non-increasing score, has at most 20
\* entries, and every entry scores strictly above 35.
C4_SortedBoundedAboveThreshold ==
    /\ Len(matches) <= 20
    /\ \A i \in 1..(Len(matches) - 1) : matches[i].score >= matches[i + 1].score
    /\ search_done =>
           \A i \in 1..Len(matches) : matches[i].score > MinScore(search_text)

\* a search that filled the result with 20 entries of different scores and left
\* scored entries out
C4_Witness ==
    /\ SearchRan
    /\ Len(matches) = 20
    /\ n_scored > 20
    /\ matches[1].score > matches[20].score

\* C5: result entries with equal score are ordered by package name ascending.
C5_TiesByNameAscending ==
    \A i \in 1..Len(matches) : \A j \in 1..Len(matches) :
        (i < j /\ matches[i].score = matches[j].score)
            => StrLess(matches[i].mod.name, matches[j].mod.name)

\* C6: perform_search on a query shorter than 3 characters produces no match
\* and scores no entry.
C6_ShortQueryEmpty ==
    (search_done /\ Len(search_text) < 3) => (matches = <<>> /\ n_scored = 0)

\* perform_search ran on a query of one or two characters, after an earlier
\* search had filled the results layout
C6_Witness ==
    /\ search_done
    /\ Len(search_text) \in 1..2
    /\ search_results_layout # <<>>

-----------------------------------------------------------------------------
(* Properties of the workflow and of the store.                            *)

DirExists(name) == fs.mod_dir[name].exists
ArchiveExists(name) == fs.disabled_mods[name].exists

\* C1: for a package whose install, toggle and uninstall calls all completed
\* without an error, exactly one of these holds: its plugin directory exists;
\* its disabled archive exists; neither exists and the store has no record.
C1_ExactlyOneOfDirArchiveNeither ==
    \A name \in PkgNames :
        name \notin failed =>
            /\ ~(DirExists(name) /\ ArchiveExists(name))
            /\ (~DirExists(name) /\ ~ArchiveExists(name))
                   => ~HasInstalledMod(disk_config, name)

\* C2: once no save is pending, every installed-mod record and every installed
\* dependency that was added and not removed afterwards is on disk.
C2_NoLostUpdate ==
    (\A i \in Instances : ~managers[i].timer) =>
        /\ \A r \in expected.mods : r \in disk_config.installed_mods
        /\ \A dep \in expected.deps : SeqContains(disk_config.installed_dependencies, dep)

\* C7: a failed install_mod call leaves no newly extracted file in its target
\* directory, and a plugin subdirectory that did not exist before the call
\* does not exist after it.
C7_FailedInstallLeavesNoFiles ==
    \A k \in 1..Len(last_op.installs) :
        ~last_op.installs[k].ok =>
            /\ last_op.installs[k].target_after.files = last_op.installs[k].target_before.files
            /\ ~last_op.installs[k].target_before.exists
                   => ~last_op.installs[k].target_after.exists

\* C8: a failed install_mod call leaves the store as it was: the document on
\* disk and the in-memory document of the view's ConfigManager are unchanged.
C8_FailedInstallKeepsStore ==
    \A k \in 1..Len(last_op.installs) :
        ~last_op.installs[k].ok => last_op.installs[k].store_unchanged

\* an install that failed after it had created its directory, with an earlier
\* record and an earlier dependency in the store
C8_Witness ==
    /\ last_op.op = "add_to_mods"
    /\ last_op.installs # <<>>
    /\ ~last_op.installs[1].ok
    /\ last_op.installs[1].target_after # last_op.installs[1].target_before
    /\ disk_config.installed_mods # {}
    /\ managers["details"].config.installed_dependencies # <<>>

\* C9: the dependency loop marks a dependency as installed only if the install
\* of that dependency succeeded.
C9_MarkedOnlyIfInstalled ==
    \A k \in 1..Len(last_op.dep_log) :
        last_op.dep_log[k].marked => last_op.dep_log[k].install_ok

\* the dependencies of the loop that could not be resolved or installed
FailedDeps ==
    {k \in 1..Len(last_op.dep_log) :
        \/ last_op.dep_log[k].step = "raised"
        \/ last_op.dep_log[k].step = "installed" /\ ~last_op.dep_log[k].install_ok}

\* C10: the dependency loop stops at the first dependency it cannot resolve
\* or install: no later dependency is installed or marked, the error names
\* that dependency, and the dependencies installed before it stay installed
\* and marked.
C10_LoopAbortsOnFirstFailure ==
    FailedDeps # {} =>
        \E first \in {SetMin(FailedDeps)} :
            /\ \A k \in (first + 1)..Len(last_op.dep_log) :
                   last_op.dep_log[k].step # "installed" /\ ~last_op.dep_log[k].marked
            /\ last_op.dep_log[first].step = "raised"
                   => last_op.loop_error \in {last_op.dep_log[first].dep,
                                              last_op.dep_log[first].name}
            /\ \A k \in 1..(first - 1) :
                   last_op.dep_log[k].step = "installed" =>
                       /\ IsDependencyInstalled(managers["details"], last_op.dep_log[k].dep)
                       /\ TargetDir(fs, last_op.dep_log[k].name).files # {}

\* a step of toggle_mod on the details view of package name
ToggleStep(name) == last_op'.op = "toggle" /\ last_op'.name = name

\* C11: an enable that fails during extraction leaves the disabled archive as
\* it was; the toggle that follows it leaves the complete contents of the
\* archive in the plugin directory, and an archive that exists after it has
\* the contents it had before.
C11_FailedEnableRetryCompletes ==
    [][\A name \in PkgNames :
          /\ (ToggleStep(name) /\ last_op'.step = "extract")
                 => fs'.disabled_mods[name] = fs.disabled_mods[name]
          /\ (ToggleStep(name) /\ last_op.op = "toggle" /\ last_op.name = name
                                /\ last_op.step = "extract")
                 => /\ last_op'.ok =>
                           fs'.mod_dir[name] =
                               [exists |-> TRUE, files |-> fs.disabled_mods[name].files]
                    /\ fs'.disabled_mods[name].exists =>
                           fs'.disabled_mods[name].files = fs.disabled_mods[name].files]_vars

\* C12: a toggle that finds the plugin directory changes or removes it only
\* with the archive holding every file of the directory; a toggle that fails
\* while it writes the archive leaves the directory and its files as they were.
C12_DirRemovedAfterArchiveWritten ==
    [][\A name \in PkgNames :
          (ToggleStep(name) /\ fs.mod_dir[name].exists) =>
              /\ fs'.mod_dir[name] # fs.mod_dir[name] =>
                     fs'.disabled_mods[name] =
                         [exists |-> TRUE, files |-> fs.mod_dir[name].files]
              /\ last_op'.step = "archive" => fs'.mod_dir[name] = fs.mod_dir[name]]_vars

\* a disable that failed while writing the archive: a partial archive next to
\* the complete plugin directory
C12_Witness ==
    /\ last_op.op = "toggle"
    /\ last_op.step = "archive"
    /\ ~last_op.ok
    /\ fs.mod_dir[last_op.name] = [exists |-> TRUE, files |-> FileSet]
    /\ fs.disabled_mods[last_op.name].exists
    /\ fs.disabled_mods[last_op.name].files # FileSet

\* C13: after an uninstall that completed, the package has no plugin
\* directory, no disabled archive and no record in the store.
C13_UninstallRemovesEverything ==
    (last_op.op = "uninstall" /\ last_op.ok) =>
        /\ ~DirExists(last_op.name)
        /\ ~ArchiveExists(last_op.name)
        /\ ~HasInstalledMod(disk_config, last_op.name)

\* what a component that reads the store next sees: its own ConfigManager()
\* loads the document from disk
ReaderView == NewConfigManager(disk_config).config

\* C14: when install, uninstall or the dependency loop has returned, every
\* mutation it made is in the document a reader loads from disk: the record
\* of each installed mod, the removal of the uninstalled one, and every
\* dependency the loop marked as installed.
C14_MutationsOnDiskBeforeNextRead ==
    /\ \A k \in 1..Len(last_op.installs) :
           (last_op.installs[k].ok /\ ~is_dependency(last_op.installs[k].name))
               => HasInstalledMod(ReaderView, last_op.installs[k].name)
    /\ (last_op.op = "uninstall" /\ last_op.ok)
           => ~HasInstalledMod(ReaderView, last_op.name)
    /\ \A k \in 1..Len(last_op.dep_log) :
           last_op.dep_log[k].marked
               => SeqContains(ReaderView.installed_dependencies, last_op.dep_log[k].dep)

\* the dependency loop of the last add_to_mods marked dep as installed
MarkedByLoop(dep) ==
    \E k \in 1..Len(last_op'.dep_log) :
        last_op'.dep_log[k].dep = dep /\ last_op'.dep_log[k].marked

\* C19: add_to_mods changes the installed-dependency set and the
\* installed-mods map only by its installs and its dependency loop; computing
\* the candidate dependencies adds nothing to either.
C19_FilteringMutatesNothing ==
    [][last_op'.op = "add_to_mods" =>
          /\ \A i \in 1..Len(managers'["details"].config.installed_dependencies) :
                 \/ SeqContains(managers["details"].config.installed_dependencies,
                                managers'["details"].config.installed_dependencies[i])
                 \/ MarkedByLoop(managers'["details"].config.installed_dependencies[i])
          /\ \A i \in 1..Len(disk_config'.installed_dependencies) :
                 \/ SeqContains(disk_config.installed_dependencies,
                                disk_config'.installed_dependencies[i])
                 \/ MarkedByLoop(disk_config'.installed_dependencies[i])
          /\ \A r \in disk_config'.installed_mods \ disk_config.installed_mods :
                 \E k \in 1..Len(last_op'.installs) :
                     last_op'.installs[k].name = r.name /\ last_op'.installs[k].ok]_vars

\* the positions of the hyphens of a reference
Hyphens(dep) == {i \in 1..Len(dep) : dep[i] = "-"}

\* the reference the dependency loop was given first
FirstReference == last_op.dep_log[1].dep

\* C20: of a reference with at least one hyphen, the author is the text before
\* the first hyphen; with two or more hyphens the version is the text after
\* the last hyphen and the mod name the text between the first and the last
\* hyphen; with one hyphen the mod name is the text after it and there is no
\* version. The loop looks up or installs the package of that name. A
\* reference without a hyphen ends the loop with an error that names it, and
\* no package is installed and no dependency marked for it.
C20_ReferenceParse ==
    last_op.dep_log # <<>> =>
        LET dep == FirstReference
            dep_parts == SplitOn(dep, "-")
            first == SetMin(Hyphens(dep))
            last == SetMax(Hyphens(dep))
        IN IF Hyphens(dep) = {}
           THEN /\ last_op.dep_log[1].step = "raised"
                /\ last_op.loop_error = dep
                /\ Len(last_op.dep_log) = 1
                /\ \A k \in 1..Len(last_op.installs) : last_op.installs[k].name = ModName
                /\ managers["details"].config.installed_dependencies = <<>>
           ELSE /\ dep_author(dep_parts) = SubSeq(dep, 1, first - 1)
                /\ last_op.dep_log[1].name = dep_name(dep_parts)
                /\ IF Cardinality(Hyphens(dep)) >= 2
                   THEN /\ dep_version(dep_parts) = SubSeq(dep, last + 1, Len(dep))
                        /\ dep_name(dep_parts) = SubSeq(dep, first + 1, last - 1)
                   ELSE /\ dep_version(dep_parts) = <<>>
                        /\ dep_name(dep_parts) = SubSeq(dep, first + 1, Len(dep))

\* the loop looked up a package whose name, taken from a reference of four
\* parts, holds a hyphen
C20_Witness ==
    /\ last_op.op = "add_to_mods"
    /\ last_op.dep_log # <<>>
    /\ Cardinality(Hyphens(FirstReference)) >= 3
    /\ Hyphens(last_op.dep_log[1].name) # {}
    /\ last_op.dep_log[1].name # FirstReference

-----------------------------------------------------------------------------
(* Properties of the catalog.                                              *)

\* C18: a load_all_mods call that failed, by a status other than 200, by a
\* network error or by a malformed entry of the list, leaves all_mods with
\* the contents it had before the call.
C18_FailedLoadKeepsCache ==
    (load.called /\ load.failure # "none") => all_mods = load.prior

-----------------------------------------------------------------------------
(* Properties of the download.                                             *)

\* C15: no two install_mod calls for the same package are in progress at the
\* same time.
C15_OneWorkflowPerPackage ==
    \A i \in 1..Len(calls) : \A j \in 1..Len(calls) :
        i # j => calls[i].name # calls[j].name

\* C16: an install whose download reported no content length completes: the
\* archive is extracted and, for a package that is not a dependency, the
\* store has its record.
C16_NoContentLengthCompletes ==
    \A k \in 1..Len(finished) :
        finished[k].total_size = 0 =>
            /\ finished[k].ok
            /\ finished[k].extracted
            /\ ~is_dependency(finished[k].name) => finished[k].recorded

\* C17: after the user cancelled an install, no further block is written to
\* the scratch archive, nothing is extracted, the store gets no record, and
\* the scratch archive is removed.
C17_CancelStopsInstall ==
    /\ \A i \in 1..Len(calls) :
           calls[i].canceled => calls[i].downloaded = calls[i].at_cancel
    /\ \A k \in 1..Len(finished) :
           finished[k].canceled =>
               /\ finished[k].after_cancel = 0
               /\ ~finished[k].extracted
               /\ ~finished[k].recorded
               /\ finished[k].temp_removed

-----------------------------------------------------------------------------
(* Properties of the round trips.                                          *)

Stores ==
    {[inst |-> managers[i], disk |-> disk_config] : i \in Instances}
        \cup {WithNewManager(disk_config)}

Occurrences(seq, x) == Cardinality({k \in 1..Len(seq) : seq[k] = x})

\* C22: after add_installed_dependency(ref) is called twice on a store, ref is
\* installed and occurs once in installed_dependencies; the second call
\* leaves the instance and the file as the first left them, and a call for a
\* reference the store already has changes nothing and starts no save.
C22_AddDependencyIdempotent ==
    \A st \in Stores : \A dep \in StoreDependencies :
        \E once \in {AddInstalledDependency(st, dep, FALSE)} :
            \E twice \in {AddInstalledDependency(once, dep, FALSE)} :
                /\ IsDependencyInstalled(twice.inst, dep)
                /\ Occurrences(twice.inst.config.installed_dependencies, dep) = 1
                /\ twice = once
                /\ IsDependencyInstalled(st.inst, dep) => once = st

\* the details view holds a dependency that is saved, with no save pending
C22_Witness ==
    /\ IsDependencyInstalled(managers["details"], R_d1)
    /\ SeqContains(disk_config.installed_dependencies, R_d1)
    /\ ~managers["details"].timer
    /\ ~managers["details"].dirty

\* the records of a document under the other names
OtherMods(config, name) == {r \in config.installed_mods : r.name # name}

\* C23: after add_installed_mod(x, r) the installed mods of the store hold r
\* as the one record of x; after remove_installed_mod(x) they hold no record
\* of x; the records of the other names are the same after both.
C23_AddRemoveModRoundTrip ==
    \A st \in Stores : \A name \in StoreNames : \A version \in StoreVersions :
        \E added \in {AddInstalledMod(st, name, [name |-> name, version |-> version], TRUE)} :
            \E removed \in {RemoveInstalledMod(added, name, TRUE)} :
                /\ {r \in added.inst.config.installed_mods : r.name = name}
                       = {[name |-> name, version |-> version]}
                /\ OtherMods(added.inst.config, name) = OtherMods(st.inst.config, name)
                /\ ~HasInstalledMod(removed.inst.config, name)
                /\ OtherMods(removed.inst.config, name) = OtherMods(st.inst.config, name)

\* the store holds records of two names, one of them in its second version
C23_Witness ==
    /\ [name |-> ModName, version |-> <<"2">>] \in disk_config.installed_mods
    /\ HasInstalledMod(disk_config, DepName)
    /\ expected.mods = disk_config.installed_mods

-----------------------------------------------------------------------------
(* Properties of the score.                                                *)

\* the score of lines 1652-1690 with every fuzz call made, whatever the exact
\* terms are: the scale is that of ScoreMod
UnoptimizedScore(query_lower, query_words, mod) ==
    LET name_exact_score == IF AnyWordIn(query_words, mod.name_lower) THEN 100 ELSE 0
        name_fuzzy_score == MaxPartial(query_words, mod.name_lower)
        name_token_score == token_sort_ratio(query_lower, mod.name_lower)
        desc_exact_score == IF AnyWordIn(query_words, mod.description_lower) THEN 100 ELSE 0
        desc_fuzzy_score == MaxPartial(query_words, mod.description_lower)
        desc_token_score == token_sort_ratio(query_lower, mod.description_lower)
        desc_word_matches == CountWordsIn(query_words, mod.description_lower)
    IN Boosted(WeightedSum(ScaleWords(query_words), name_exact_score, name_fuzzy_score,
                           name_token_score, desc_exact_score, desc_fuzzy_score,
                           desc_token_score, desc_word_matches),
               StartsWith(mod.name_lower, query_lower),
               AllWordsIn(query_words, mod.description_lower))

\* C24: for every entry that perform_search scores above 35, the score it
\* computes with its short-circuits is the score of the same weighted sum and
\* boosts with all six fuzzy terms computed in full.
C24_ShortCircuitSameScore ==
    SearchRan =>
        \A i \in Qualifying(search_text) :
            ScoreAt(search_text, i)
                = UnoptimizedScore(Lower(search_text), Split(Lower(search_text)), all_mods[i])

\* C25: perform_search on a query of at least 3 characters that splits into
\* no word produces no match and raises no error.
C25_BlankQueryNoMatchNoError ==
    (search_done /\ ~TooShort(search_text) /\ Split(Lower(search_text)) = <<>>)
        => (matches = <<>> /\ ~search_error)

-----------------------------------------------------------------------------
(* Properties of add_to_mods and the dependency loop.                      *)

\* C26: a package that the dependency loop installed is not added to the
\* installed-mods map by that add_to_mods, whatever its name.
C26_DependenciesNotInModsMap ==
    [][last_op'.op = "add_to_mods" =>
          \A k \in 1..Len(last_op'.dep_log) :
              (last_op'.dep_log[k].step = "installed"
                  /\ last_op'.dep_log[k].name # last_op'.name
                  /\ HasInstalledMod(disk_config', last_op'.dep_log[k].name))
                      => HasInstalledMod(disk_config, last_op'.dep_log[k].name)]_vars

\* the loop's first step resolved nothing: it raised, installed no package of
\* this name and did not mark the reference
ResolutionFailed(dep, name) ==
    /\ last_op.dep_log[1].step = "raised"
    /\ ~last_op.dep_log[1].marked
    /\ \A k \in 1..Len(last_op.installs) : last_op.installs[k].name # name
    /\ ~IsDependencyInstalled(managers["details"], dep)

\* the loop's first step installed this version of the package of this name
ResolvedTo(name, version) ==
    /\ last_op.dep_log[1].step = "installed"
    /\ last_op.installs[1].name = name
    /\ last_op.installs[1].version = version

\* C27: for a reference whose author and name are in the catalog, a version
\* token (the last of three or more parts) selects the published version of
\* that number, and when none is published the resolution fails, with nothing
\* installed or marked; without a version token the version selected is the
\* greatest version string.
C27_VersionSelection ==
    (last_op.op = "add_to_mods" /\ last_op.dep_log # <<>>) =>
        LET dep == FirstReference
            dep_parts == SplitOn(dep, "-")
        IN (Len(dep_parts) >= 2
               /\ MatchingMods(ApiPackages, dep_parts[1], dep_name(dep_parts)) # {}) =>
             LET name == dep_name(dep_parts)
                 versions ==
                     ApiPackages[SetMin(MatchingMods(ApiPackages, dep_parts[1], name))].versions
                 token == dep_parts[Len(dep_parts)]
             IN IF Len(dep_parts) >= 3
                THEN IF SeqContains(versions, token)
                     THEN ResolvedTo(name, token)
                     ELSE ResolutionFailed(dep, name)
                ELSE \E i \in 1..Len(versions) :
                         /\ \A j \in 1..Len(versions) : ~StrLess(versions[i], versions[j])
                         /\ ResolvedTo(name, versions[i])

\* C28: when the dependency loop of add_to_mods failed, by an error that
\* ended it or by an install that failed, add_to_mods does not call
\* install_mod for the main package.
C28_MainOnlyAfterDependencies ==
    (last_op.op = "add_to_mods" /\ (last_op.loop_error # <<>> \/ FailedDeps # {})) =>
        \A k \in 1..Len(last_op.installs) : last_op.installs[k].name # last_op.name

\* C29: an add_to_mods whose dependency dialog was rejected (it made no call
\* of install_mod) leaves the document on disk, the configuration of the
\* details view and the plugin tree as they were.
C29_RejectedDialogNoEffect ==
    [][(last_op'.op = "add_to_mods" /\ last_op'.installs = <<>>) =>
          /\ disk_config' = disk_config
          /\ managers'["details"].config = managers["details"].config
          /\ fs' = fs]_vars

-----------------------------------------------------------------------------
(* Properties of the debounced save.                                       *)

\* the document on disk is the in-memory document of instance i
Saved(i) == disk_config = managers[i].config

\* the last run of a save timer was that of instance i, and its write raised
WriteFailed(i) == last_op.op = "save" /\ last_op.step = i /\ ~last_op.ok

\* C30: an instance with unsaved changes and a save timer pending reaches a
\* state where the document on disk is its in-memory document, unless the
\* write raised; the timer of an instance stops pending only by running, and
\* the dirty flag of an instance is cleared only in a step that leaves its
\* document on disk.
C30_DebouncedSaveReachesDisk ==
    /\ \A i \in Instances :
           (managers[i].timer /\ managers[i].dirty) ~> (Saved(i) \/ WriteFailed(i))
    /\ [][\A i \in Instances :
             /\ (managers[i].timer /\ ~managers'[i].timer)
                    => (last_op'.op = "save" /\ last_op'.step = i)
             /\ (managers[i].dirty /\ ~managers'[i].dirty)
                    => disk_config' = managers'[i].config]_vars

\* the library's timer ran after set('repo_path', ..) changed the path twice,
\* the write worked, and the file holds the library's document
C30_Witness ==
    /\ last_op.op = "save" /\ last_op.step = "library" /\ last_op.ok
    /\ managers["library"].config.repo_path = <<>>
    /\ ~managers["library"].timer
    /\ ~managers["library"].dirty
    /\ Saved("library")

====
